---- MODULE Spec2Model ----
(***************************************************************************)
(* State machine of the Tic Tac Toe component                              *)
(* src/tic_tac_toe_frontend/src/App.js.                                    *)
(*                                                                         *)
(* The React state cells of App (theme, board, xIsNext, scores,            *)
(* winnerInfo, isDraw) are the variables.  Every user event (a click on a  *)
(* square, New Game, Reset Scores, the theme button) is one action: the    *)
(* handler runs to completion and React commits its state updates before   *)
(* the next event is dispatched.                                           *)
(*                                                                         *)
(* Three history variables observe the run and are read by no handler:     *)
(*   last       the event handled last: its name and the status shown      *)
(*              when the event arrived;                                    *)
(*   trace      the clicks received since construction, for as long as     *)
(*              they follow one of the scenarios of the test suite;        *)
(*   concluded  the number of rounds that went from in progress to won or  *)
(*              drawn since construction or the last Reset Scores.         *)
(***************************************************************************)
EXTENDS Integers, Sequences, FiniteSets

VARIABLES theme, board, xIsNext, scores, winnerInfo, isDraw, last, trace,
          concluded

gameVars == <<board, xIsNext, scores, winnerInfo, isDraw>>
vars ==
  <<theme, board, xIsNext, scores, winnerInfo, isDraw, last, trace, concluded>>

----------------------------------------------------------------------------
(* Bounds *)

\* Once this many rounds have been concluded (sum of the three counters),
\* New Game is not pressed again before Reset Scores.
MaxRounds == 2

\* The same bound for the runs with a wider set of inputs (any index, clicks
\* between two renders).
MaxRoundsWide == 1

\* Clicks that may be dispatched between two renders.
MaxBatch == 2

----------------------------------------------------------------------------
(* Values *)

\* JavaScript null, the content of an empty square and of "no winner".
null == "null"

\* The nine indices of the board array.
Cells == 0..8

Marks == {"X", "O"}

\* The table with the columns listed before the rows.
lines_colsFirst ==
  << <<0, 3, 6>>, <<1, 4, 7>>, <<2, 5, 8>>,
     <<0, 1, 2>>, <<3, 4, 5>>, <<6, 7, 8>>,
     <<0, 4, 8>>, <<2, 4, 6>> >>

\* The table of calculateWinner, in the order it is scanned.
lines ==
  << <<0, 1, 2>>, <<3, 4, 5>>, <<6, 7, 8>>,
     <<0, 3, 6>>, <<1, 4, 7>>, <<2, 5, 8>>,
     <<0, 4, 8>>, <<2, 4, 6>> >>

\* Array(9).fill(null)
emptyBoard == [i \in Cells |-> null]

\* { winner: null, line: [] }
noWinner == [winner |-> null, line |-> <<>>]

\* { X: 0, O: 0, draws: 0 }
zeroScores == [X |-> 0, O |-> 0, draws |-> 0]

----------------------------------------------------------------------------
(* calculateWinner *)

\* The condition of the loop body without the comparison with the third cell.
lineMatches_twoCells(squares, ln) ==
  /\ squares[ln[1]] # null
  /\ squares[ln[1]] = squares[ln[2]]

\* The condition of the loop body for the triple ln = <<a, b, c>>.
lineMatches(squares, ln) ==
  /\ squares[ln[1]] # null
  /\ squares[ln[1]] = squares[ln[2]]
  /\ squares[ln[2]] = squares[ln[3]]

RECURSIVE scanLines(_, _)
\* The for loop from the k-th triple on: the first match is returned.
scanLines(squares, k) ==
  IF k > Len(lines) THEN noWinner
  ELSE IF lineMatches(squares, lines[k])
       THEN [winner |-> squares[lines[k][1]], line |-> lines[k]]
       ELSE scanLines(squares, k + 1)

calculateWinner(squares) == scanLines(squares, 1)

----------------------------------------------------------------------------
(* handleSquareClick *)

\* The early return without the game-over test.
clickIgnored_noGameOver(idx) ==
  board[idx] # null

\* The early return without the filled-square test.
clickIgnored_noFilled(idx) ==
  winnerInfo.winner # null \/ isDraw

\* The early return: game over or square filled.
clickIgnored(idx) ==
  winnerInfo.winner # null \/ isDraw \/ board[idx] # null

\* nextBoard with the marks of the two players exchanged.
nextBoardOf_otherMark(idx) ==
  [board EXCEPT ![idx] = IF xIsNext THEN "O" ELSE "X"]

\* nextBoard: a copy of board with the mark of the player to move at idx.
nextBoardOf(idx) ==
  [board EXCEPT ![idx] = IF xIsNext THEN "X" ELSE "O"]

\* nextBoard.some(Boolean)
filled_some(squares) == \E i \in DOMAIN squares : squares[i] # null

\* nextBoard.every(Boolean)
filled(squares) == \A i \in DOMAIN squares : squares[i] # null

\* draw = filled, without the test of res.winner
drawOf_filledOnly(res, squares) == filled(squares)

\* draw = res.winner && filled, the negation lost
drawOf_notNegated(res, squares) == res.winner # null /\ filled(squares)

\* draw = !res.winner && filled
drawOf(res, squares) == res.winner = null /\ filled(squares)

\* The updaters without the spread of prev: the other counters are lost.
scoresAfter_dropPrev(res, draw) ==
  IF res.winner # null
  THEN [zeroScores EXCEPT ![res.winner] = scores[res.winner] + 1]
  ELSE IF draw
       THEN [zeroScores EXCEPT !.draws = scores.draws + 1]
       ELSE scores

\* The updaters with the win credited to the player of the next turn.
scoresAfter_nextPlayer(res, draw) ==
  IF res.winner # null
  THEN [scores EXCEPT ![IF res.winner = "X" THEN "O" ELSE "X"] = @ + 1]
  ELSE IF draw
       THEN [scores EXCEPT !.draws = @ + 1]
       ELSE scores

\* The two setScores updaters.
scoresAfter(res, draw) ==
  IF res.winner # null
  THEN [scores EXCEPT ![res.winner] = @ + 1]
  ELSE IF draw
       THEN [scores EXCEPT !.draws = @ + 1]
       ELSE scores

\* The state updates of an accepted click, without setXIsNext.
clickAccepted_noFlip(idx) ==
  LET nextBoard == nextBoardOf(idx)
      res == calculateWinner(nextBoard)
      draw == drawOf(res, nextBoard)
  IN /\ board' = nextBoard
     /\ xIsNext' = xIsNext
     /\ winnerInfo' = res
     /\ isDraw' = draw
     /\ scores' = scoresAfter(res, draw)

\* The state updates of an accepted click, with the turn kept by a move that
\* concludes the round.
clickAccepted_flipIfOpen(idx) ==
  LET nextBoard == nextBoardOf(idx)
      res == calculateWinner(nextBoard)
      draw == drawOf(res, nextBoard)
  IN /\ board' = nextBoard
     /\ xIsNext' = IF res.winner # null \/ draw THEN xIsNext ELSE ~xIsNext
     /\ winnerInfo' = res
     /\ isDraw' = draw
     /\ scores' = scoresAfter(res, draw)

\* The state updates of an accepted click.
clickAccepted(idx) ==
  LET nextBoard == nextBoardOf(idx)
      res == calculateWinner(nextBoard)
      draw == drawOf(res, nextBoard)
  IN /\ board' = nextBoard
     /\ xIsNext' = ~xIsNext
     /\ winnerInfo' = res
     /\ isDraw' = draw
     /\ scores' = scoresAfter(res, draw)

handleSquareClick(idx) ==
  IF clickIgnored(idx)
  THEN UNCHANGED gameVars
  ELSE clickAccepted(idx)

----------------------------------------------------------------------------
(* statusText, gameOver *)

\* The three cases of statusText: "Winner: ..", "Draw", "Next Turn: ..".
Outcome ==
  IF winnerInfo.winner # null THEN "WIN"
  ELSE IF isDraw THEN "DRAW"
  ELSE "IN_PROGRESS"

\* The player named by "Next Turn".
Turn == IF xIsNext THEN "X" ELSE "O"

gameOver == winnerInfo.winner # null \/ isDraw

\* The disabled attribute without the game-over part.
disabled_filledOnly(idx) == board[idx] # null

\* The disabled attribute of the button of square idx.
disabled(idx) == gameOver \/ board[idx] # null

----------------------------------------------------------------------------
(* newGame, resetScores, toggleTheme *)

\* newGame without setXIsNext(true).
newGame_keepTurn ==
  /\ board' = emptyBoard
  /\ xIsNext' = xIsNext
  /\ winnerInfo' = noWinner
  /\ isDraw' = FALSE

newGame ==
  /\ board' = emptyBoard
  /\ xIsNext' = TRUE
  /\ winnerInfo' = noWinner
  /\ isDraw' = FALSE

\* resetScores without the call of newGame.
resetScores_scoresOnly ==
  /\ UNCHANGED <<board, xIsNext, winnerInfo, isDraw>>
  /\ scores' = zeroScores

resetScores ==
  /\ newGame
  /\ scores' = zeroScores

\* toggleTheme that only ever switches to dark.
toggleTheme_toDark ==
  theme' = "dark"

toggleTheme ==
  theme' = IF theme = "light" THEN "dark" ELSE "light"

----------------------------------------------------------------------------
(* History of the inputs *)

\* Click sequences of the test suite.
RowWinMoves == <<0, 3, 1, 4, 2>>
DrawMoves == <<0, 1, 2, 5, 3, 6, 4, 8, 7>>
OccupiedMoves == <<0, 0>>
AfterWinMoves == <<0, 3, 1, 4, 2, 5>>
Scenarios == {RowWinMoves, DrawMoves, OccupiedMoves, AfterWinMoves}

IsPrefix(s, t) == Len(s) <= Len(t) /\ \A i \in 1..Len(s) : s[i] = t[i]

traceOff == [on |-> FALSE, clicks |-> <<>>]

traceAfterClick(idx) ==
  LET c == Append(trace.clicks, idx)
  IN IF trace.on /\ \E s \in Scenarios : IsPrefix(c, s)
     THEN [on |-> TRUE, clicks |-> c]
     ELSE traceOff

----------------------------------------------------------------------------
(* Events *)

Total(s) == s.X + s.O + s.draws

\* One more round is concluded when the status leaves "Next Turn".
concludedAfterClick ==
  IF Outcome = "IN_PROGRESS" /\ Outcome' # "IN_PROGRESS"
  THEN concluded + 1
  ELSE concluded

\* The initial values with O as the first player.
Init_OFirst ==
  /\ theme = "light"
  /\ board = emptyBoard
  /\ xIsNext = FALSE
  /\ scores = zeroScores
  /\ winnerInfo = noWinner
  /\ isDraw = FALSE
  /\ last = [op |-> "init", was |-> "IN_PROGRESS"]
  /\ trace = [on |-> TRUE, clicks |-> <<>>]
  /\ concluded = 0

Init ==
  /\ theme = "light"
  /\ board = emptyBoard
  /\ xIsNext = TRUE
  /\ scores = zeroScores
  /\ winnerInfo = noWinner
  /\ isDraw = FALSE
  /\ last = [op |-> "init", was |-> "IN_PROGRESS"]
  /\ trace = [on |-> TRUE, clicks |-> <<>>]
  /\ concluded = 0

SquareClick(idx) ==
  /\ handleSquareClick(idx)
  /\ last' = [op |-> "click", was |-> Outcome]
  /\ trace' = traceAfterClick(idx)
  /\ concluded' = concludedAfterClick
  /\ UNCHANGED theme

NewGameClick ==
  /\ newGame
  /\ last' = [op |-> "newGame", was |-> Outcome]
  /\ trace' = traceOff
  /\ UNCHANGED <<scores, theme, concluded>>

ResetScoresClick ==
  /\ resetScores
  /\ last' = [op |-> "resetScores", was |-> Outcome]
  /\ trace' = traceOff
  /\ concluded' = 0
  /\ UNCHANGED theme

ThemeClick ==
  /\ toggleTheme
  /\ last' = [op |-> "toggleTheme", was |-> Outcome]
  /\ trace' = traceOff
  /\ UNCHANGED <<gameVars, concluded>>

Next ==
  \/ \E idx \in Cells : SquareClick(idx)
  \/ Total(scores) < MaxRounds /\ NewGameClick
  \/ ResetScoresClick
  \/ ThemeClick

Spec == Init /\ [][Next]_vars

----------------------------------------------------------------------------
(* Notions the properties are stated in *)

\* The three rows, three columns and two diagonals of the 3x3 grid.
FixedTriples ==
  { <<0, 1, 2>>, <<3, 4, 5>>, <<6, 7, 8>>,
    <<0, 3, 6>>, <<1, 4, 7>>, <<2, 5, 8>>,
    <<0, 4, 8>>, <<2, 4, 6>> }

\* The three cells of triple t all hold mark m on board b.
HeldBy(b, t, m) == \A i \in 1..3 : b[t[i]] = m

\* The triples that are satisfied on board b.
SatisfiedTriples(b) == {t \in FixedTriples : \E m \in Marks : HeldBy(b, t, m)}

\* No cell of b is empty.
Full(b) == \A i \in 0..8 : b[i] \in Marks

\* The number of cells of the board that hold mark m.
Count(m) == Cardinality({i \in 0..8 : board[i] = m})

TypeOK ==
  /\ theme \in {"light", "dark"}
  /\ board \in [Cells -> Marks \cup {null}]
  /\ xIsNext \in BOOLEAN
  /\ \A k \in {"X", "O", "draws"} : scores[k] \in 0..MaxRounds
  /\ winnerInfo.winner \in Marks \cup {null}
  /\ isDraw \in BOOLEAN

\* The step is a click on cell i.
ClickStep(i) == last'.op = "click" /\ SquareClick(i)

\* The step is a click on cell i that handleSquareClick has to accept: the
\* round is in progress and the cell is empty.
LegalClickStep(i) ==
  Outcome = "IN_PROGRESS" /\ board[i] = null /\ ClickStep(i)

----------------------------------------------------------------------------
(* C1 *)

\* C1: once the round is won or drawn, a click on any cell changes neither
\* the board, the turn, the outcome (winner and winning line) nor the score;
\* only New Game or Reset Scores change them again.  The test scenario: the
\* click on cell 5 after the row win 0,3,1,4,2 leaves the won state as it is.
C1_NoMoveAfterGameOver ==
  [][ /\ \A i \in 0..8 :
           (Outcome \in {"WIN", "DRAW"} /\ ClickStep(i)) => UNCHANGED gameVars
      /\ (Outcome \in {"WIN", "DRAW"} /\ gameVars' # gameVars)
           => last'.op \in {"newGame", "resetScores"}
      /\ (trace'.on /\ trace'.clicks = AfterWinMoves)
           => /\ board'[5] = null
              /\ winnerInfo' = [winner |-> "X", line |-> <<0, 1, 2>>]
              /\ scores' = [X |-> 1, O |-> 0, draws |-> 0]
    ]_vars

\* Cell 5 was clicked after the row win, and it is still empty.
C1_Witness ==
  /\ last.op = "click"
  /\ last.was = "WIN"
  /\ trace.on
  /\ trace.clicks = AfterWinMoves
  /\ board[5] = null

----------------------------------------------------------------------------
(* C2 *)

\* C2: while the round is in progress, a click on a cell that already holds
\* a mark is ignored: board, turn, outcome and score stay exactly as they
\* were (the cell keeps its mark and the turn is not consumed).
C2_OccupiedCellIgnored ==
  [][ \A i \in 0..8 :
        (Outcome = "IN_PROGRESS" /\ board[i] \in Marks /\ ClickStep(i))
          => /\ UNCHANGED gameVars
             /\ board'[i] = board[i]
             /\ Turn' = Turn
    ]_vars

\* Cell 0 was clicked twice in a row on a fresh board: it holds the X of
\* the first click and O is still to move.
C2_Witness ==
  /\ trace.on
  /\ trace.clicks = OccupiedMoves
  /\ last.op = "click"
  /\ last.was = "IN_PROGRESS"
  /\ board[0] = "X"
  /\ Turn = "O"

----------------------------------------------------------------------------
(* C3 *)

\* C3: when an accepted click completes one of the 8 triples with the
\* mover's mark, the outcome becomes WIN, the winner is the mark just placed,
\* the three cells of the winning line hold that mark, the winner's counter
\* grows by exactly 1 and the other two counters keep their values.  The
\* clicks 0,3,1,4,2 on a fresh board give a win of X on <<0,1,2>> and the
\* score X=1, O=0, draws=0.
C3_WinByMover ==
  [][ /\ \A i \in 0..8 : \A m \in Marks :
           ( /\ LegalClickStep(i)
             /\ Turn = m
             /\ \E t \in FixedTriples : HeldBy(board', t, m) )
           => /\ Outcome' = "WIN"
              /\ winnerInfo'.winner = m
              /\ board'[i] = m
              /\ winnerInfo'.line \in FixedTriples
              /\ HeldBy(board', winnerInfo'.line, m)
              /\ scores'[m] = scores[m] + 1
              /\ \A k \in {"X", "O", "draws"} \ {m} : scores'[k] = scores[k]
      /\ (trace'.on /\ trace'.clicks = RowWinMoves)
           => /\ winnerInfo' = [winner |-> "X", line |-> <<0, 1, 2>>]
              /\ scores' = [X |-> 1, O |-> 0, draws |-> 0]
    ]_vars

\* The row-win scenario has been played to its fifth click.
C3_Witness ==
  /\ trace.on
  /\ trace.clicks = RowWinMoves
  /\ last.op = "click"
  /\ last.was = "IN_PROGRESS"
  /\ Outcome = "WIN"

----------------------------------------------------------------------------
(* C4 *)

\* Cell i is the only empty cell of the board.
LastEmpty(i) ==
  board[i] = null /\ \A j \in (0..8) \ {i} : board[j] \in Marks

\* C4: an accepted click yields a draw, with the draws counter one higher
\* and the X and O counters unchanged, if and only if it fills the last
\* empty cell and no triple is satisfied afterwards; a click that fills the
\* last empty cell and completes a triple yields a win, not a draw, and
\* leaves the draws counter alone.  The clicks 0,1,2,5,3,6,4,8,7 on a fresh
\* board end in a draw with draws = 1.
C4_DrawExactly ==
  [][ /\ \A i \in 0..8 :
           LegalClickStep(i)
           => /\ (Outcome' = "DRAW")
                   <=> (LastEmpty(i) /\ SatisfiedTriples(board') = {})
              /\ isDraw' <=> (Outcome' = "DRAW")
              /\ (Outcome' = "DRAW")
                   => /\ scores'.draws = scores.draws + 1
                      /\ scores'.X = scores.X
                      /\ scores'.O = scores.O
              /\ (Outcome' # "DRAW") => scores'.draws = scores.draws
              /\ (LastEmpty(i) /\ SatisfiedTriples(board') # {})
                   => Outcome' = "WIN" /\ ~isDraw'
      /\ (trace'.on /\ trace'.clicks = DrawMoves)
           => /\ Outcome' = "DRAW"
              /\ Full(board')
              /\ SatisfiedTriples(board') = {}
              /\ scores' = [X |-> 0, O |-> 0, draws |-> 1]
    ]_vars

\* The draw scenario has been played to its ninth click.
C4_Witness ==
  /\ trace.on
  /\ trace.clicks = DrawMoves
  /\ last.op = "click"
  /\ last.was = "IN_PROGRESS"
  /\ isDraw

----------------------------------------------------------------------------
(* C5 *)

\* C5: in every reachable state the number of X cells minus the number of
\* O cells is 0 or 1, and while the round is in progress it is X's turn
\* exactly when the two numbers are equal and O's turn exactly when X has
\* one more.
C5_Alternation ==
  /\ Count("X") - Count("O") \in {0, 1}
  /\ Outcome = "IN_PROGRESS"
       => /\ (Turn = "X") <=> (Count("X") = Count("O"))
          /\ (Turn = "O") <=> (Count("X") = Count("O") + 1)

\* Three moves into a round: X has played twice, O once, O is to move.
C5_Witness ==
  /\ last.op = "click"
  /\ Outcome = "IN_PROGRESS"
  /\ Count("X") = 2
  /\ Count("O") = 1
  /\ Turn = "O"

----------------------------------------------------------------------------
(* C6 *)

\* C6: New Game can be pressed in every reachable state, and it yields nine
\* empty cells, X to move, a round in progress with an empty winning line,
\* and the three counters as they were.
C6_NewGameResetsRound ==
  [][ /\ ENABLED NewGameClick
      /\ last'.op = "newGame"
           => /\ \A i \in 0..8 : board'[i] = null
              /\ Turn' = "X"
              /\ Outcome' = "IN_PROGRESS"
              /\ winnerInfo'.winner = null
              /\ winnerInfo'.line = <<>>
              /\ ~isDraw'
              /\ scores' = scores
    ]_vars

\* New Game was pressed on a won round; the point of that round is kept.
C6_Witness ==
  /\ last.op = "newGame"
  /\ last.was = "WIN"
  /\ scores.X = 1
  /\ \A i \in 0..8 : board[i] = null

----------------------------------------------------------------------------
(* C7 *)

\* C7: Reset Scores can be pressed in every reachable state, and it yields
\* the score 0, 0, 0 together with the whole effect of New Game; the game
\* state it leaves is the one the component is constructed with.
C7_ResetScoresResetsAll ==
  [][ /\ ENABLED ResetScoresClick
      /\ last'.op = "resetScores"
           => /\ scores' = [X |-> 0, O |-> 0, draws |-> 0]
              /\ \A i \in 0..8 : board'[i] = null
              /\ Turn' = "X"
              /\ Outcome' = "IN_PROGRESS"
              /\ board' = [i \in 0..8 |-> null]
              /\ xIsNext' = TRUE
              /\ winnerInfo' = [winner |-> null, line |-> <<>>]
              /\ isDraw' = FALSE
    ]_vars

\* Reset Scores was pressed on a won round, that is with a counter at 1.
C7_Witness ==
  /\ last.op = "resetScores"
  /\ last.was = "WIN"
  /\ scores.X = 0 /\ scores.O = 0 /\ scores.draws = 0

----------------------------------------------------------------------------
(* C8 *)

\* C8: no counter decreases across a click or New Game; a counter is
\* lowered only by Reset Scores, which sets all three to zero; and a click
\* changes a counter only when it is the accepted move that concludes the
\* round.
C8_ScoreMonotone ==
  [][ /\ \A k \in {"X", "O", "draws"} :
           /\ last'.op \in {"click", "newGame"} => scores'[k] >= scores[k]
           /\ scores'[k] < scores[k]
                => /\ last'.op = "resetScores"
                   /\ scores' = [X |-> 0, O |-> 0, draws |-> 0]
      /\ (last'.op = "click" /\ scores' # scores)
           => /\ Outcome = "IN_PROGRESS"
              /\ Outcome' \in {"WIN", "DRAW"}
              /\ \E i \in 0..8 : board[i] = null /\ board'[i] \in Marks
    ]_vars

\* A click has concluded a round and moved a counter from 0 to 1.
C8_Witness ==
  /\ last.op = "click"
  /\ last.was = "IN_PROGRESS"
  /\ Outcome \in {"WIN", "DRAW"}
  /\ scores.X + scores.O + scores.draws = 1

----------------------------------------------------------------------------
(* C9 *)

\* C9: the outcome is exactly one of in progress, win, draw (a winner and
\* the draw flag are never set together) and agrees with the board: mark m
\* is the winner exactly when some triple is entirely m, and then the
\* winning line is one of the 8 triples with all three cells m; the round is
\* drawn exactly when the board is full with no triple satisfied; it is in
\* progress exactly when no triple is satisfied and a cell is empty.
C9_OutcomeMatchesBoard ==
  /\ ~(winnerInfo.winner # null /\ isDraw)
  /\ \A m \in Marks :
       (Outcome = "WIN" /\ winnerInfo.winner = m)
         <=> (\E t \in FixedTriples : HeldBy(board, t, m))
  /\ Outcome = "WIN"
       => /\ winnerInfo.winner \in Marks
          /\ winnerInfo.line \in FixedTriples
          /\ HeldBy(board, winnerInfo.line, winnerInfo.winner)
  /\ isDraw <=> (Full(board) /\ SatisfiedTriples(board) = {})
  /\ (Outcome = "DRAW") <=> (Full(board) /\ SatisfiedTriples(board) = {})
  /\ (Outcome = "IN_PROGRESS")
       <=> (SatisfiedTriples(board) = {} /\ ~Full(board))

\* O has just won a round.
C9_Witness ==
  /\ last.op = "click"
  /\ Outcome = "WIN"
  /\ winnerInfo.winner = "O"
  /\ \E t \in FixedTriples : HeldBy(board, t, "O")

----------------------------------------------------------------------------
(* C10 *)

\* The cells of triple t.
CellsOf(t) == {t[1], t[2], t[3]}

\* C10 as stated: at most one triple is ever satisfied, so in a won state
\* the winning line is the only satisfied triple.
C10_SingleTriple ==
  /\ Cardinality(SatisfiedTriples(board)) <= 1
  /\ Outcome = "WIN" => SatisfiedTriples(board) = {winnerInfo.line}

\* C10, amended: after an accepted click at most two triples are satisfied,
\* each of them holds the mover's mark and contains the clicked cell (one
\* move can complete two triples at once); in every won state the winning
\* line is one of the satisfied triples, not necessarily the only one, and
\* every satisfied triple belongs to the winner.
C10_AtMostTwoTriples ==
  [][ /\ \A i \in 0..8 :
           LegalClickStep(i)
           => /\ Cardinality(SatisfiedTriples(board')) <= 2
              /\ \A t \in SatisfiedTriples(board') :
                   i \in CellsOf(t) /\ HeldBy(board', t, Turn)
      /\ Cardinality(SatisfiedTriples(board')) <= 2
      /\ Outcome' = "WIN"
           => /\ winnerInfo'.line \in SatisfiedTriples(board')
              /\ \A t \in SatisfiedTriples(board') :
                   HeldBy(board', t, winnerInfo'.winner)
    ]_vars

\* One click has completed two triples at once.
C10_Witness ==
  /\ last.op = "click"
  /\ last.was = "IN_PROGRESS"
  /\ Outcome = "WIN"
  /\ Cardinality(SatisfiedTriples(board)) = 2

----------------------------------------------------------------------------
(* C11 *)

\* C11 as stated: an accepted click flips the turn exactly when the round
\* stays in progress; a click that concludes the round leaves the turn at
\* the mark that made the concluding move.
C11_FlipOnlyInProgress ==
  [][ \A i \in 0..8 :
        LegalClickStep(i)
        => /\ (Turn' # Turn) <=> (Outcome' = "IN_PROGRESS")
           /\ Outcome' \in {"WIN", "DRAW"} => Turn' = board'[i]
    ]_vars

\* C11, amended: every accepted click flips the turn, the click that
\* concludes the round included; after a concluding click the turn names the
\* mark other than the one just placed (the status then shows the winner or
\* the draw, not the turn).
C11_FlipOnEveryAcceptedClick ==
  [][ \A i \in 0..8 :
        LegalClickStep(i)
        => /\ Turn' # Turn
           /\ Turn' \in Marks \ {board'[i]}
           /\ Outcome' \in {"WIN", "DRAW"} => Turn' # board'[i]
    ]_vars

\* X has just won and the turn has moved on to O.
C11_Witness ==
  /\ last.op = "click"
  /\ last.was = "IN_PROGRESS"
  /\ Outcome = "WIN"
  /\ winnerInfo.winner = "X"
  /\ Turn = "O"

----------------------------------------------------------------------------
(* C13 *)

\* C13: an accepted click on cell i changes exactly one cell of the board:
\* cell i goes from empty to the mark of the player to move and every other
\* cell keeps its value; so between two presses of New Game or Reset Scores
\* a cell that holds a mark never changes again.
C13_OneCellPerMove ==
  [][ /\ \A i \in 0..8 :
           LegalClickStep(i)
           => /\ board[i] = null
              /\ board'[i] = Turn
              /\ \A j \in (0..8) \ {i} : board'[j] = board[j]
      /\ \A j \in 0..8 :
           (board[j] \in Marks /\ last'.op \notin {"newGame", "resetScores"})
             => board'[j] = board[j]
    ]_vars

\* Four moves into a round that is still in progress.
C13_Witness ==
  /\ last.op = "click"
  /\ last.was = "IN_PROGRESS"
  /\ Outcome = "IN_PROGRESS"
  /\ Count("X") = 2
  /\ Count("O") = 2

----------------------------------------------------------------------------
(* C15 *)

\* A click on cell i would change the game state.
ClickWouldAct(i) == ENABLED (SquareClick(i) /\ gameVars' # gameVars)

\* C15: the button of cell i is disabled exactly when a click on it would be
\* rejected, that is exactly when the round is won or drawn or the cell
\* holds a mark; all nine buttons are disabled once the round is concluded
\* and all nine are enabled after New Game or Reset Scores.
C15_DisabledIffRejected ==
  /\ \A i \in 0..8 :
       /\ disabled(i) <=> ~ClickWouldAct(i)
       /\ disabled(i) <=> (Outcome \in {"WIN", "DRAW"} \/ board[i] \in Marks)
  /\ Outcome \in {"WIN", "DRAW"} => \A i \in 0..8 : disabled(i)
  /\ last.op \in {"newGame", "resetScores"} => \A i \in 0..8 : ~disabled(i)

\* A round is won with an empty cell left: that cell's button is disabled
\* although the cell is empty.
C15_Witness ==
  /\ last.op = "click"
  /\ Outcome = "WIN"
  /\ \E i \in 0..8 : board[i] = null /\ disabled(i)

----------------------------------------------------------------------------
(* C16 *)

\* C16: the component starts with nine empty cells, X to move, a round in
\* progress with an empty winning line and the score 0, 0, 0; and the first
\* accepted click of every round (after construction, New Game or Reset
\* Scores) places an X.
C16_InitialStateAndXOpens ==
  [][ /\ last.op = "init"
           => /\ board = [i \in 0..8 |-> null]
              /\ Turn = "X"
              /\ Outcome = "IN_PROGRESS"
              /\ winnerInfo = [winner |-> null, line |-> <<>>]
              /\ isDraw = FALSE
              /\ scores = [X |-> 0, O |-> 0, draws |-> 0]
      /\ \A i \in 0..8 :
           (LegalClickStep(i) /\ \A j \in 0..8 : board[j] = null)
             => board'[i] = "X"
      /\ last'.op \in {"newGame", "resetScores"} => Turn' = "X"
    ]_vars

\* The first move of a second round: one X on the board, one point scored.
C16_Witness ==
  /\ last.op = "click"
  /\ Count("X") = 1
  /\ Count("O") = 0
  /\ scores.X + scores.O + scores.draws = 1

----------------------------------------------------------------------------
(* C19 *)

\* The number of cells that hold a mark on board b.
Filled(b) == Cardinality({i \in 0..8 : b[i] \in Marks})

\* C19: a round in progress is never stuck: some cell is empty and a click
\* on it is accepted; every accepted click fills exactly one more cell, so
\* the number of filled cells counts the accepted moves of the round and a
\* round is concluded after at most 9 of them (a full board is never in
\* progress); no round is won before its 5th accepted move and a round is
\* drawn only by its 9th.  (The theme button can be pressed in every state,
\* so the first conjunct looks at every reachable state once.)
C19_RoundConcludes ==
  [][ /\ (last'.op = "toggleTheme" /\ Outcome = "IN_PROGRESS")
           => \E i \in 0..8 :
                /\ board[i] = null
                /\ ENABLED (SquareClick(i) /\ board'[i] \in Marks)
      /\ \A i \in 0..8 :
           LegalClickStep(i) => Filled(board') = Filled(board) + 1
      /\ last'.op = "click"
           => Filled(board') \in {Filled(board), Filled(board) + 1}
      /\ last'.op \in {"newGame", "resetScores"} => Filled(board') = 0
      /\ Filled(board') <= 9
      /\ Filled(board') = 9 => Outcome' \in {"WIN", "DRAW"}
      /\ Outcome' = "WIN" => Filled(board') >= 5
      /\ Outcome' = "DRAW" => Filled(board') = 9
    ]_vars

\* A round won by its fifth accepted move, the earliest possible.
C19_Witness ==
  /\ last.op = "click"
  /\ last.was = "IN_PROGRESS"
  /\ Outcome = "WIN"
  /\ Filled(board) = 5

----------------------------------------------------------------------------
(* C20 *)

\* C20: the theme button only switches the theme between light and dark (so
\* two presses restore it) and leaves board, turn, outcome and score alone;
\* a click on a square, New Game and Reset Scores never change the theme
\* (Reset Scores does not bring it back to light).
C20_ThemeIndependent ==
  [][ /\ theme \in {"light", "dark"}
      /\ last'.op = "toggleTheme"
           => /\ theme = "light" => theme' = "dark"
              /\ theme = "dark" => theme' = "light"
              /\ UNCHANGED gameVars
      /\ last'.op \in {"click", "newGame", "resetScores"} => theme' = theme
    ]_vars

\* Reset Scores was pressed in the dark theme, and the theme is still dark.
C20_Witness ==
  /\ last.op = "resetScores"
  /\ theme = "dark"

----------------------------------------------------------------------------
(* C18 *)

\* C18: a round contributes at most one point: a click raises the sum of
\* the three counters by 1 exactly when it takes the round from in progress
\* to won or drawn, and by 0 otherwise (so never again in a round that is
\* already concluded); New Game leaves the sum alone; hence the sum always
\* equals the number of rounds concluded since construction or the last
\* Reset Scores.
C18_OnePointPerRound ==
  [][ /\ scores.X + scores.O + scores.draws = concluded
      /\ scores'.X + scores'.O + scores'.draws = concluded'
      /\ last'.op = "click"
           => /\ Total(scores') - Total(scores) \in {0, 1}
              /\ (Total(scores') = Total(scores) + 1)
                   <=> (Outcome = "IN_PROGRESS" /\ Outcome' \in {"WIN", "DRAW"})
      /\ last'.op = "newGame" => Total(scores') = Total(scores)
      /\ last'.op = "resetScores" => Total(scores') = 0
    ]_vars

\* A second round has been concluded since the last reset, and two points
\* are on the scoreboard.
C18_Witness ==
  /\ last.op = "click"
  /\ last.was = "IN_PROGRESS"
  /\ concluded = 2
  /\ scores.X + scores.O + scores.draws = 2

----------------------------------------------------------------------------
(* C17 *)

\* calculateWinner as a function of its argument: the squares are drawn from
\* all 3^9 fillings of the nine cells (the boards of a game are among them),
\* with either player to move.
AllBoards == [Cells -> Marks \cup {null}]

InitCalc ==
  /\ theme = "light"
  /\ board \in AllBoards
  /\ xIsNext \in BOOLEAN
  /\ scores = zeroScores
  /\ winnerInfo = noWinner
  /\ isDraw = FALSE
  /\ last = [op |-> "init", was |-> "IN_PROGRESS"]
  /\ trace = traceOff
  /\ concluded = 0

\* calculateWinner(board), the result kept in winnerInfo.
CalcStep ==
  /\ last.op = "init"
  /\ winnerInfo' = calculateWinner(board)
  /\ last' = [op |-> "calc", was |-> Outcome]
  /\ UNCHANGED <<theme, board, xIsNext, scores, isDraw, trace, concluded>>

\* handleSquareClick on a position without a satisfied triple: the call of
\* calculateWinner on the board with the new mark.
CalcAfterMove ==
  /\ last.op = "init"
  /\ SatisfiedTriples(board) = {}
  /\ \E idx \in Cells : SquareClick(idx)

NextCalc == CalcStep \/ CalcAfterMove

SpecCalc == InitCalc /\ [][NextCalc]_vars

\* The 8 triples in the order rows, columns, diagonals.
ScanOrder ==
  << <<0, 1, 2>>, <<3, 4, 5>>, <<6, 7, 8>>,
     <<0, 3, 6>>, <<1, 4, 7>>, <<2, 5, 8>>,
     <<0, 4, 8>>, <<2, 4, 6>> >>

\* The earliest triple of ScanOrder that is satisfied on b.
FirstSatisfied(b) ==
  LET ks == {k \in 1..8 : ScanOrder[k] \in SatisfiedTriples(b)}
  IN ScanOrder[CHOOSE k \in ks : \A j \in ks : k <= j]

\* res is the result the scan in ScanOrder has to give on board b.
ScanResult(b, res) ==
  /\ (res.winner = null) <=> (SatisfiedTriples(b) = {})
  /\ (res.line = <<>>) <=> (SatisfiedTriples(b) = {})
  /\ SatisfiedTriples(b) # {}
       => /\ res.line = FirstSatisfied(b)
          /\ res.winner \in Marks
          /\ HeldBy(b, res.line, res.winner)

\* C17: calculateWinner reports the first triple, in the order rows, columns,
\* diagonals, whose three cells are equal and not empty; on every board it
\* returns no winner and an empty line exactly when no triple is satisfied;
\* and the line reported for a concluding move is the earliest satisfied
\* triple and contains the cell of that move.
C17_FirstTripleInScanOrder ==
  [][ /\ last'.op = "calc" => ScanResult(board, winnerInfo')
      /\ \A i \in 0..8 :
           LegalClickStep(i)
           => /\ ScanResult(board', winnerInfo')
              /\ winnerInfo'.winner # null
                   => /\ i \in CellsOf(winnerInfo'.line)
                      /\ winnerInfo'.winner = board'[i]
    ]_vars

\* calculateWinner was given a board with the top row and the left column
\* both held by X, and it reported the row.
C17_Witness ==
  /\ last.op = "calc"
  /\ HeldBy(board, <<0, 1, 2>>, "X")
  /\ HeldBy(board, <<0, 3, 6>>, "X")
  /\ winnerInfo = [winner |-> "X", line |-> <<0, 1, 2>>]

----------------------------------------------------------------------------
(* C12 *)

\* handleSquareClick called with any integer, as JavaScript runs it on the
\* board array.  Indices outside 0..8 that a caller may pass:
OutOfRange == {-1, 9}

\* squares[i]: undefined, which is falsy as null is, where nothing is stored.
elementAt(squares, i) == IF i \in DOMAIN squares THEN squares[i] ELSE null

\* squares.slice(): the elements at the indices from 0 on; a property such
\* as "-1" of the array object is not copied.
sliceOf(squares) == [i \in {j \in DOMAIN squares : j >= 0} |-> squares[i]]

\* copy[i] = v: the element is replaced, or added when i is the length of
\* the array; a negative i becomes a property of the array object.
storeAt(squares, i, v) ==
  [j \in DOMAIN squares \cup {i} |-> IF j = i THEN v ELSE squares[j]]

\* squares.every(Boolean): the elements at the indices from 0 on.
everyTruthy(squares) ==
  \A i \in {j \in DOMAIN squares : j >= 0} : squares[i] # null

handleSquareClickAny(idx) ==
  IF winnerInfo.winner # null \/ isDraw \/ elementAt(board, idx) # null
  THEN UNCHANGED gameVars
  ELSE LET nextBoard ==
             storeAt(sliceOf(board), idx, IF xIsNext THEN "X" ELSE "O")
           res == calculateWinner(nextBoard)
           draw == res.winner = null /\ everyTruthy(nextBoard)
       IN /\ board' = nextBoard
          /\ xIsNext' = ~xIsNext
          /\ winnerInfo' = res
          /\ isDraw' = draw
          /\ scores' = scoresAfter(res, draw)

AnyClick(idx) ==
  /\ handleSquareClickAny(idx)
  /\ last' = [op |-> "click", was |-> Outcome]
  /\ trace' = traceAfterClick(idx)
  /\ concluded' = concludedAfterClick
  /\ UNCHANGED theme

\* The events of the game; the theme button plays no part here.
NextAny ==
  \/ \E idx \in Cells \cup OutOfRange : AnyClick(idx)
  \/ Total(scores) < MaxRoundsWide /\ NewGameClick
  \/ ResetScoresClick

SpecAny == Init /\ [][NextAny]_vars

\* C12: a call with an index outside 0..8 is not accepted as a move: it
\* writes no mark, does not extend the board beyond its 9 cells, and changes
\* neither the turn, the outcome nor the score.
C12_InvalidIndexRejected ==
  [][ \A idx \in OutOfRange :
        (last'.op = "click" /\ AnyClick(idx))
          => /\ DOMAIN board' = 0..8
             /\ board' = board
             /\ Turn' = Turn
             /\ Outcome' = Outcome
             /\ winnerInfo' = winnerInfo
             /\ scores' = scores
    ]_vars

----------------------------------------------------------------------------
(* C14 *)

\* The state a render shows.  The handlers created by that render close over
\* its board, xIsNext, winnerInfo and isDraw; the setters queue their updates
\* on the state, which React commits with the next render.
stateNow ==
  [board |-> board, xIsNext |-> xIsNext, scores |-> scores,
   winnerInfo |-> winnerInfo, isDraw |-> isDraw]

\* handleSquareClick of the render that showed r, called when the queued
\* state is q: the early return and nextBoard read r; setBoard, setWinnerInfo
\* and setIsDraw queue values, setXIsNext and setScores queue updaters of the
\* value queued before.
clickOfRender(r, q, idx) ==
  IF r.winnerInfo.winner # null \/ r.isDraw \/ r.board[idx] # null
  THEN q
  ELSE LET nextBoard == [r.board EXCEPT ![idx] = IF r.xIsNext THEN "X" ELSE "O"]
           res == calculateWinner(nextBoard)
           draw == drawOf(res, nextBoard)
       IN [board |-> nextBoard,
           xIsNext |-> ~q.xIsNext,
           scores |-> IF res.winner # null
                      THEN [q.scores EXCEPT ![res.winner] = @ + 1]
                      ELSE IF draw
                           THEN [q.scores EXCEPT !.draws = @ + 1]
                           ELSE q.scores,
           winnerInfo |-> res,
           isDraw |-> draw]

RECURSIVE clicksOfRender(_, _, _)
\* The clicks dispatched, in this order, to the handlers of the render r.
clicksOfRender(r, q, clicks) ==
  IF clicks = <<>> THEN q
  ELSE clicksOfRender(r, clickOfRender(r, q, Head(clicks)), Tail(clicks))

\* The click sequences that may arrive between two renders.
Batches == UNION {[1..n -> Cells] : n \in 1..MaxBatch}

\* Clicks dispatched one after the other before React renders again (the
\* render follows in a microtask, so events dispatched in one task find the
\* handlers of the same render), then the render that commits the queue.
BatchClick(clicks) ==
  \E q \in {clicksOfRender(stateNow, stateNow, clicks)} :
     /\ board' = q.board
     /\ xIsNext' = q.xIsNext
     /\ scores' = q.scores
     /\ winnerInfo' = q.winnerInfo
     /\ isDraw' = q.isDraw
     /\ last' = [op |-> "click", was |-> Outcome]
     /\ trace' = IF Len(clicks) = 1 THEN traceAfterClick(clicks[1]) ELSE traceOff
     /\ concluded' = concludedAfterClick
     /\ UNCHANGED theme

\* The events of the game; the theme button plays no part here.
NextBatch ==
  \/ \E clicks \in Batches : BatchClick(clicks)
  \/ Total(scores) < MaxRoundsWide /\ NewGameClick
  \/ ResetScoresClick

SpecBatch == Init /\ [][NextBatch]_vars

RECURSIVE clicksOneByOne(_, _)
\* The clicks handled one at a time, each by the handler of the state the
\* click before it produced.
clicksOneByOne(q, clicks) ==
  IF clicks = <<>> THEN q
  ELSE clicksOneByOne(clickOfRender(q, q, Head(clicks)), Tail(clicks))

\* C14: events are processed one at a time, each handler seeing the state
\* the previous one produced; so clicks dispatched back-to-back before a
\* render give what the same clicks give one by one: they are not both
\* accepted against the same state, no mark is lost while the turn flips
\* twice (the turn has changed exactly when an odd number of marks was
\* added), and no round scores twice.
C14_EventsOneAtATime ==
  [][ \A clicks \in Batches :
        (last'.op = "click" /\ BatchClick(clicks))
          => /\ stateNow' = clicksOneByOne(stateNow, clicks)
             /\ (Turn' = Turn) <=> (Filled(board') - Filled(board) \in {0, 2})
             /\ Total(scores') - Total(scores) <= 1
    ]_vars

====
